---- MODULE Spec2Model ----
(***************************************************************************)
(* A model of runtime/complex.go: the Python 'complex' type of the grumpy   *)
(* runtime.  The handlers of the type (arithmetic, equality, ordering,      *)
(* hash, repr), the coercion helper and the slot registration are           *)
(* translated from the Go source.  float64 values are modelled as IEEE-754  *)
(* sign/magnitude values (signed zeros, infinities, NaN, integer-valued     *)
(* finite numbers n * 2^e); Go's int is a two's complement word of          *)
(* IntBytes bytes whose arithmetic wraps.                                   *)
(***************************************************************************)
EXTENDS Integers, Sequences, FiniteSets, TLC

\* Largest magnitude of the finite float64 / int operands that are enumerated.
MaxInt == 2

\* Number of bytes of Go's int (GOARCH amd64); hash arithmetic wraps at 2^(8*IntBytes).
IntBytes == 8

\* The multiplier of the imaginary part's hash.
K == 1000003

(***************************************************************************)
(* float64                                                                 *)
(***************************************************************************)
\* A finite value is s * n * 2^e with s the sign bit (so that -0 exists).
Fin(s, n, e) == [k |-> "fin", s |-> s, n |-> n, e |-> e]
Inf(s) == [k |-> "inf", s |-> s, n |-> 0, e |-> 0]
NaN == [k |-> "nan", s |-> 1, n |-> 0, e |-> 0]
PosZero == Fin(1, 0, 0)
NegZero == Fin(-1, 0, 0)

Abs(x) == IF x < 0 THEN -x ELSE x
Min(a, b) == IF a <= b THEN a ELSE b

RECURSIVE Pow2(_)
Pow2(e) == IF e = 0 THEN 1 ELSE 2 * Pow2(e - 1)

\* The float64 of a number i of small magnitude (exact below 2^53).
FromInt(i) == Fin(IF i < 0 THEN -1 ELSE 1, Abs(i), 0)

\* The signed numerator of a finite value over the common exponent e.
Scaled(a, e) == a.s * a.n * Pow2(a.e - e)

\* <<n, e>> with n * 2^e unchanged and n odd (or zero).
RECURSIVE Odd(_, _)
Odd(n, e) == IF n > 0 /\ n % 2 = 0 THEN Odd(n \div 2, e + 1) ELSE <<n, e>>

\* Go's == on float64: NaN equals nothing, -0 equals +0.
DEq(a, b) ==
    IF a.k = "nan" \/ b.k = "nan" THEN FALSE
    ELSE IF a.k = "inf" \/ b.k = "inf" THEN a.k = b.k /\ a.s = b.s
    ELSE IF a.n = 0 \/ b.n = 0 THEN a.n = b.n
    ELSE a.s = b.s /\ Odd(a.n, a.e) = Odd(b.n, b.e)

\* Go's x >= 0.0 on float64.
DGeZero(a) ==
    IF a.k = "nan" THEN FALSE
    ELSE IF a.k = "inf" THEN a.s = 1
    ELSE a.n = 0 \/ a.s = 1

\* math.IsInf(x, 0)
IsInf(a) == a.k = "inf"

\* IEEE-754 negation: flips the sign bit.
DNeg(a) == IF a.k = "nan" THEN a ELSE [a EXCEPT !.s = -a.s]

\* IEEE-754 addition, round to nearest (exact on the modelled values).
DAdd(a, b) ==
    IF a.k = "nan" \/ b.k = "nan" THEN NaN
    ELSE IF a.k = "inf" /\ b.k = "inf" THEN (IF a.s = b.s THEN a ELSE NaN)
    ELSE IF a.k = "inf" THEN a
    ELSE IF b.k = "inf" THEN b
    ELSE LET e == Min(a.e, b.e)
             x == Scaled(a, e) + Scaled(b, e)
         IN  IF x = 0
             THEN (IF a.s = -1 /\ b.s = -1 THEN NegZero ELSE PosZero)
             ELSE Fin(IF x < 0 THEN -1 ELSE 1, Abs(x), e)

\* IEEE-754 subtraction: x - y is x + (-y).
DSub(a, b) == DAdd(a, DNeg(b))

(***************************************************************************)
(* complex128                                                              *)
(***************************************************************************)
Cplx(re, im) == [re |-> re, im |-> im]

\* lhs + rhs and lhs - rhs on complex128 are component-wise.
CAdd(x, y) == Cplx(DAdd(x.re, y.re), DAdd(x.im, y.im))
CSub(x, y) == Cplx(DSub(x.re, y.re), DSub(x.im, y.im))

(***************************************************************************)
(* int: a two's complement word, least significant byte first              *)
(***************************************************************************)
RECURSIVE NatBytes(_, _)
NatBytes(n, len) ==
    IF len = 0 THEN <<>> ELSE <<n % 256>> \o NatBytes(n \div 256, len - 1)

Complement(w) == [j \in DOMAIN w |-> 255 - w[j]]

IntToWord(i) ==
    IF i >= 0 THEN NatBytes(i, IntBytes) ELSE Complement(NatBytes(-i - 1, IntBytes))

RECURSIVE AddBytes(_, _, _)
AddBytes(a, b, carry) ==
    IF a = <<>> THEN <<>>
    ELSE LET t == Head(a) + Head(b) + carry
         IN  <<t % 256>> \o AddBytes(Tail(a), Tail(b), t \div 256)

\* x + y on int, wrapping.
WAdd(a, b) == AddBytes(a, b, 0)

RECURSIVE MulBytes(_, _, _)
MulBytes(a, m, carry) ==
    IF a = <<>> THEN <<>>
    ELSE LET t == Head(a) * m + carry
         IN  <<t % 256>> \o MulBytes(Tail(a), m, t \div 256)

\* m * x on int, wrapping, for a constant 0 <= m < 2^23.
WMul(m, a) == MulBytes(a, m, 0)

\* x << e on int: whole bytes first, then the remaining bits.
WShl(a, e) ==
    WMul(Pow2(e % 8), [j \in 1..Len(a) |-> IF j <= e \div 8 THEN 0 ELSE a[j - (e \div 8)]])

RECURSIVE BytesToNat(_)
BytesToNat(w) == IF w = <<>> THEN 0 ELSE Head(w) + 256 * BytesToNat(Tail(w))

WNegative(w) == w[Len(w)] >= 128

\* The value of a word of small magnitude.
WordToInt(w) == IF WNegative(w) THEN -BytesToNat(Complement(w)) - 1 ELSE BytesToNat(w)

\* Bit i of a word, bit 0 the least significant.
Bit(w, i) == (w[(i \div 8) + 1] \div Pow2(i % 8)) % 2

SetBits(w) == {i \in 0..(8 * Len(w) - 1) : Bit(w, i) = 1}
TopBit(w) == LET S == SetBits(w) IN IF S = {} THEN -1 ELSE CHOOSE i \in S : \A j \in S : j <= i
LowBit(w) == LET S == SetBits(w) IN IF S = {} THEN -1 ELSE CHOOSE i \in S : \A j \in S : i <= j

\* The word with its d low bits cleared.
ClearLow(w, d) ==
    [j \in DOMAIN w |->
        IF 8 * j <= d THEN 0
        ELSE IF 8 * (j - 1) >= d THEN w[j]
        ELSE w[j] - (w[j] % Pow2(d - 8 * (j - 1)))]

RECURSIVE BitsToNat(_, _, _)
BitsToNat(w, lo, hi) == IF hi < lo THEN 0 ELSE Bit(w, lo) + 2 * BitsToNat(w, lo + 1, hi)

\* The bits of a float64's significand.
MantBits == 53

\* The number of low bits a magnitude loses in a float64.
Dropped(mag) ==
    LET top == TopBit(mag) IN IF top + 1 > MantBits THEN top + 1 - MantBits ELSE 0

\* mag without its d low bits, rounded to nearest, ties to the even significand.
RoundedBy(mag, d) ==
    IF d = 0 THEN mag
    ELSE LET half == WAdd(WShl(IntToWord(1), d - 1), IntToWord(-1))
         IN  CHOOSE r \in {ClearLow(x, d) : x \in {WAdd(mag, WAdd(half, IntToWord(Bit(mag, d))))}} : TRUE

Rounded(mag) == CHOOSE r \in {RoundedBy(mag, d) : d \in {Dropped(mag)}} : TRUE

\* The finite float64 of sign s and magnitude r, r of at most MantBits significant bits.
Normal(s, r) ==
    IF \A j \in 4..Len(r) : r[j] = 0 THEN Fin(s, BytesToNat(r), 0)
    ELSE CHOOSE f \in {Fin(s, BitsToNat(r, lo, hi), lo) : lo \in {LowBit(r)}, hi \in {TopBit(r)}} : TRUE

\* float64(i) for an int i: the nearest float64, ties to the even significand.
ToFloat64(w) ==
    LET neg == WNegative(w)
    IN  CHOOSE f \in {Normal(IF neg THEN -1 ELSE 1, r) : r \in {Rounded(mag) :
                        mag \in {IF neg THEN WAdd(Complement(w), IntToWord(1)) ELSE w}}} : TRUE

(***************************************************************************)
(* Objects of the host runtime                                             *)
(***************************************************************************)
ObjectType == "object"
IntType == "int"
BoolType == "bool"
LongType == "long"
FloatType == "float"
ComplexType == "complex"
StrType == "str"
NoneType == "NoneType"
TypeErrorType == "TypeError"
OverflowErrorType == "OverflowError"

\* The nil *Object / nil *BaseException of a Go result pair.
Nil == [typ |-> "nil"]

\* NewComplex returns a new Complex holding the given complex value.
NewComplex(value) == [typ |-> ComplexType, value |-> value]
NewFloat(d) == [typ |-> FloatType, f |-> d]
NewInt(w) == [typ |-> IntType, i |-> w]
\* A long of small magnitude l, or (huge) one of that sign beyond the float64 range.
NewLong(l, huge) == [typ |-> LongType, l |-> l, huge |-> huge]
NewStr(s) == [typ |-> StrType, s |-> s]
None == [typ |-> NoneType]
NotImplemented == [typ |-> "NotImplementedType"]
True == [typ |-> BoolType, i |-> IntToWord(1)]
False == [typ |-> BoolType, i |-> IntToWord(0)]
GetBool(b) == IF b THEN True ELSE False

\* The base of each type: bool derives from int, the others from object.
Base(t) == IF t = BoolType THEN IntType ELSE ObjectType

isInstance(o, t) == o.typ = t \/ Base(o.typ) = t

toComplexUnsafe(o) == o

\* Value returns the underlying complex value held by c.
Value(c) == c.value

\* f.RaiseType(typ, msg): the raised exception.
RaiseType(typ, msg) == [typ |-> typ, msg |-> msg]

\* A Go result pair (*Object, *BaseException).
Ret(obj, exc) == [obj |-> obj, exc |-> exc]

\* floatCoerce: (value, true) for an int, a float and a long that fits a float64,
\* (+-Inf, false) for a long that does not, (0, false) for anything else.
floatCoerce(o) ==
    IF isInstance(o, IntType) THEN [f |-> ToFloat64(o.i), ok |-> TRUE]
    ELSE IF isInstance(o, LongType)
         THEN (IF o.huge THEN [f |-> Inf(o.l), ok |-> FALSE]
                         ELSE [f |-> FromInt(o.l), ok |-> TRUE])
    ELSE IF isInstance(o, FloatType) THEN [f |-> o.f, ok |-> TRUE]
    ELSE [f |-> PosZero, ok |-> FALSE]

\* hashFloat: an integer-valued float hashes as that integer; NaN and the
\* infinities hash as fixed values.
hashFloat(d) ==
    IF d.k = "nan" THEN IntToWord(0)
    ELSE IF d.k = "inf" THEN (IF d.s = 1 THEN IntToWord(314159) ELSE IntToWord(-271828))
    ELSE WShl(IntToWord(d.s * d.n), d.e)

(***************************************************************************)
(* strconv.FormatFloat(x, 'g', -1, 64) and fmt.Sprintf                     *)
(***************************************************************************)
Digit(n) == <<"0", "1", "2", "3", "4", "5", "6", "7", "8", "9">>[n + 1]

RECURSIVE Decimal(_)
Decimal(n) == IF n < 10 THEN <<Digit(n)>> ELSE Decimal(n \div 10) \o <<Digit(n % 10)>>

\* The shortest decimal text of a float64 (integer-valued, below 1e21).
FormatFloat(d) ==
    IF d.k = "nan" THEN <<"N", "a", "N">>
    ELSE IF d.k = "inf" THEN <<IF d.s = 1 THEN "+" ELSE "-", "I", "n", "f">>
    ELSE (IF d.s = -1 THEN <<"-">> ELSE <<>>) \o Decimal(d.n * Pow2(d.e))

(***************************************************************************)
(* The handlers of runtime/complex.go                                      *)
(***************************************************************************)
\* The closures the arithmetic handlers pass to complexArithmeticOp.
ApplyFun(fun, lhs, rhs) ==
    CASE fun = "lhs + rhs" -> CAdd(lhs, rhs)
      [] fun = "lhs - rhs" -> CSub(lhs, rhs)
      [] fun = "rhs - lhs" -> CSub(rhs, lhs)

\* complexArithmeticOp without the math.IsInf test: every failed coercion defers.
complexArithmeticOp_NoOverflow(method, v, w, fun) ==
    IF isInstance(w, ComplexType)
    THEN Ret(NewComplex(ApplyFun(fun, Value(toComplexUnsafe(v)), Value(toComplexUnsafe(w)))), Nil)
    ELSE LET fc == floatCoerce(w)
         IN  IF ~fc.ok
             THEN Ret(NotImplemented, Nil)
             ELSE Ret(NewComplex(ApplyFun(fun, Value(toComplexUnsafe(v)), Cplx(fc.f, PosZero))), Nil)

\* complexArithmeticOp using the coerced value of a non-numeric operand: only
\* overflow is tested.
complexArithmeticOp_NoDeferral(method, v, w, fun) ==
    IF isInstance(w, ComplexType)
    THEN Ret(NewComplex(ApplyFun(fun, Value(toComplexUnsafe(v)), Value(toComplexUnsafe(w)))), Nil)
    ELSE LET fc == floatCoerce(w)
         IN  IF ~fc.ok /\ IsInf(fc.f)
             THEN Ret(Nil, RaiseType(OverflowErrorType, "long int too large to convert to float"))
             ELSE Ret(NewComplex(ApplyFun(fun, Value(toComplexUnsafe(v)), Cplx(fc.f, PosZero))), Nil)

complexArithmeticOp(method, v, w, fun) ==
    IF isInstance(w, ComplexType)
    THEN Ret(NewComplex(ApplyFun(fun, Value(toComplexUnsafe(v)), Value(toComplexUnsafe(w)))), Nil)
    ELSE LET fc == floatCoerce(w)
             floatW == fc.f
         IN  IF ~fc.ok
             THEN (IF IsInf(floatW)
                   THEN Ret(Nil, RaiseType(OverflowErrorType, "long int too large to convert to float"))
                   ELSE Ret(NotImplemented, Nil))
             ELSE Ret(NewComplex(ApplyFun(fun, Value(toComplexUnsafe(v)), Cplx(floatW, PosZero))), Nil)

complexAdd(v, w) == complexArithmeticOp("__add__", v, w, "lhs + rhs")

complexRAdd(v, w) == complexArithmeticOp("__radd__", v, w, "lhs + rhs")

\* complexRSub with the operands of the closure in the forward order.
complexRSub_Forward(v, w) == complexArithmeticOp("__rsub__", v, w, "lhs - rhs")

complexRSub(v, w) == complexArithmeticOp("__rsub__", v, w, "rhs - lhs")

complexSub(v, w) == complexArithmeticOp("__rsub__", v, w, "lhs - rhs")

\* complexCoerce reporting overflow as (0, false), like a non-numeric operand.
complexCoerce_NoInf(o) ==
    IF isInstance(o, ComplexType) THEN [c |-> Value(toComplexUnsafe(o)), ok |-> TRUE]
    ELSE LET fc == floatCoerce(o)
         IN  IF ~fc.ok
             THEN [c |-> Cplx(PosZero, PosZero), ok |-> FALSE]
             ELSE [c |-> Cplx(fc.f, PosZero), ok |-> TRUE]

\* complexCoerce will coerce any numeric type to a complex: (value, ok).
complexCoerce(o) ==
    IF isInstance(o, ComplexType) THEN [c |-> Value(toComplexUnsafe(o)), ok |-> TRUE]
    ELSE LET fc == floatCoerce(o)
             floatO == fc.f
         IN  IF ~fc.ok
             THEN (IF IsInf(floatO)
                   THEN [c |-> Cplx(floatO, PosZero), ok |-> FALSE]
                   ELSE [c |-> Cplx(PosZero, PosZero), ok |-> FALSE])
             ELSE [c |-> Cplx(floatO, PosZero), ok |-> TRUE]

\* complexCompare comparing the imaginary part with the real part of the operand.
complexCompare_RealTwice(v, w) ==
    LET lhsr == Value(v).re
        co == complexCoerce(w)
        rhs == co.c
    IN  IF ~co.ok THEN [e |-> FALSE, ok |-> FALSE]
        ELSE [e |-> DEq(lhsr, rhs.re) /\ DEq(Value(v).im, rhs.re), ok |-> TRUE]

\* complexCompare: (equal, ok).
complexCompare(v, w) ==
    LET lhsr == Value(v).re
        co == complexCoerce(w)
        rhs == co.c
    IN  IF ~co.ok THEN [e |-> FALSE, ok |-> FALSE]
        ELSE [e |-> DEq(lhsr, rhs.re) /\ DEq(Value(v).im, rhs.im), ok |-> TRUE]

complexEq(v, w) ==
    LET r == complexCompare(toComplexUnsafe(v), w)
    IN  IF ~r.ok THEN Ret(NotImplemented, Nil) ELSE Ret(GetBool(r.e), Nil)

\* complexNE without the negation.
complexNE_NoNegation(v, w) ==
    LET r == complexCompare(toComplexUnsafe(v), w)
    IN  IF ~r.ok THEN Ret(NotImplemented, Nil) ELSE Ret(GetBool(r.e), Nil)

complexNE(v, w) ==
    LET r == complexCompare(toComplexUnsafe(v), w)
    IN  IF ~r.ok THEN Ret(NotImplemented, Nil) ELSE Ret(GetBool(~r.e), Nil)

\* complexCompareNotSupported without the LongType test.
complexCompareNotSupported_NoLong(v, w) ==
    IF isInstance(w, IntType) \/ isInstance(w, FloatType) \/ isInstance(w, ComplexType)
    THEN Ret(Nil, RaiseType(TypeErrorType, "no ordering relation is defined for complex numbers"))
    ELSE Ret(NotImplemented, Nil)

complexCompareNotSupported(v, w) ==
    IF isInstance(w, IntType) \/ isInstance(w, LongType)
       \/ isInstance(w, FloatType) \/ isInstance(w, ComplexType)
    THEN Ret(Nil, RaiseType(TypeErrorType, "no ordering relation is defined for complex numbers"))
    ELSE Ret(NotImplemented, Nil)

MinusOne == IntToWord(-1)
MinusTwo == IntToWord(-2)

\* complexHash without the replacement of -1.
complexHash_NoRemap(o) ==
    LET v == Value(toComplexUnsafe(o))
    IN  Ret(NewInt(WAdd(hashFloat(v.re), WMul(K, hashFloat(v.im)))), Nil)

complexHash(o) ==
    LET v == Value(toComplexUnsafe(o))
        hashCombined == WAdd(hashFloat(v.re), WMul(K, hashFloat(v.im)))
    IN  Ret(NewInt(IF hashCombined = MinusOne THEN MinusTwo ELSE hashCombined), Nil)

complexRepr(o) ==
    LET c == Value(toComplexUnsafe(o))
        zeroReal == DEq(c.re, PosZero)
        pre == IF zeroReal THEN <<>> ELSE <<"(">>
        rs == IF zeroReal THEN <<>> ELSE FormatFloat(c.re)
        is == FormatFloat(c.im)
        sign == IF ~zeroReal /\ DGeZero(c.im) THEN <<"+">> ELSE <<>>
        post == IF zeroReal THEN <<>> ELSE <<")">>
    IN  Ret(NewStr(pre \o rs \o sign \o is \o <<"j">> \o post), Nil)

(***************************************************************************)
(* The state: the slot table of ComplexType and one dispatched call        *)
(***************************************************************************)
VARIABLES
    slots,  \* ComplexType.slots: slot name -> handler ("" while unset)
    slot,   \* the slot (or function) that was called, "none" before the call
    v,      \* the receiver of the call
    w,      \* the other operand of the call
    res     \* what the call returned

vars == <<slots, slot, v, w, res>>

SlotNames == {"Add", "Eq", "GE", "GT", "Hash", "LE", "LT", "NE", "RAdd", "Repr", "RSub", "Sub"}

\* The float64 values that are enumerated as components and operands.
Floats == {Fin(s, n, 0) : s \in {1, -1}, n \in 0..MaxInt} \cup {Inf(1), Inf(-1), NaN}

\* Two integer-valued float64 whose hashes h1, h2 give h2 + K * h1 = -1 only by wrapping.
WrapIm == Fin(1, 985159463, 17)
WrapRe == Fin(1, 1167458303, 0)

Receivers == {NewComplex(Cplx(re, im)) : re \in Floats, im \in Floats}

HashReceivers ==
    Receivers \cup {NewComplex(Cplx(re, im)) : re \in {WrapRe, PosZero}, im \in {WrapIm, NegZero}}

\* 2^53 as a float64, and the ints 2^53 and 2^53 + 1.
Float2p53 == Fin(1, 1, MantBits)
Int2p53 == WShl(IntToWord(1), MantBits)
Int2p53Plus1 == WAdd(Int2p53, IntToWord(1))

Operands ==
    Receivers
    \cup {NewFloat(d) : d \in Floats}
    \cup {NewInt(IntToWord(i)) : i \in -MaxInt..MaxInt}
    \cup {True, False}
    \cup {NewLong(l, FALSE) : l \in -MaxInt..MaxInt}
    \cup {NewLong(1, TRUE), NewLong(-1, TRUE)}
    \cup {NewStr(<<"t", "e", "x", "t">>), None}

\* The receivers of the ordering slots, whose handler does not read its receiver.
OrderReceivers == {NewComplex(Cplx(re, PosZero)) : re \in Floats}

EqReceivers == Receivers \cup {NewComplex(Cplx(Float2p53, PosZero))}

EqOperands == Operands \cup {NewInt(Int2p53), NewInt(Int2p53Plus1)}

Init ==
    /\ slots = [n \in SlotNames |-> ""]
    /\ slot = "none"
    /\ v = Nil
    /\ w = Nil
    /\ res = Nil

\* initComplexType fills the slot table.
initComplexType ==
    [n \in SlotNames |->
        CASE n = "Add" -> "complexAdd"
          [] n = "Eq" -> "complexEq"
          [] n = "GE" -> "complexCompareNotSupported"
          [] n = "GT" -> "complexCompareNotSupported"
          [] n = "Hash" -> "complexHash"
          [] n = "LE" -> "complexCompareNotSupported"
          [] n = "LT" -> "complexCompareNotSupported"
          [] n = "NE" -> "complexNE"
          [] n = "RAdd" -> "complexRAdd"
          [] n = "Repr" -> "complexRepr"
          [] n = "RSub" -> "complexRSub"
          [] n = "Sub" -> "complexSub"]

InitComplexType ==
    /\ slots = [n \in SlotNames |-> ""]
    /\ slots' = initComplexType
    /\ UNCHANGED <<slot, v, w, res>>

\* binaryOpSlot{fn}.Fn(f, v, w)
CallBinary(fn, a, b) ==
    CASE fn = "complexAdd" -> complexAdd(a, b)
      [] fn = "complexRAdd" -> complexRAdd(a, b)
      [] fn = "complexSub" -> complexSub(a, b)
      [] fn = "complexRSub" -> complexRSub(a, b)
      [] fn = "complexEq" -> complexEq(a, b)
      [] fn = "complexNE" -> complexNE(a, b)
      [] fn = "complexCompareNotSupported" -> complexCompareNotSupported(a, b)

\* unaryOpSlot{fn}.Fn(f, o)
CallUnary(fn, a) ==
    CASE fn = "complexHash" -> complexHash(a)
      [] fn = "complexRepr" -> complexRepr(a)

\* The host calls a binary slot of ComplexType on a complex receiver.
Binary(name, receivers, operands) ==
    /\ slot = "none"
    /\ slots[name] # ""
    /\ \E a \in receivers, b \in operands :
          /\ v' = a
          /\ w' = b
          /\ res' = CallBinary(slots[name], a, b)
    /\ slot' = name
    /\ UNCHANGED slots

\* The host calls a unary slot of ComplexType on a complex receiver.
Unary(name, inputs) ==
    /\ slot = "none"
    /\ slots[name] # ""
    /\ \E a \in inputs :
          /\ v' = a
          /\ res' = CallUnary(slots[name], a)
    /\ w' = Nil
    /\ slot' = name
    /\ UNCHANGED slots

Add == Binary("Add", Receivers, Operands)
RAdd == Binary("RAdd", Receivers, Operands)
Sub == Binary("Sub", Receivers, Operands)
RSub == Binary("RSub", Receivers, Operands)
Eq == Binary("Eq", EqReceivers, EqOperands)
NE == Binary("NE", EqReceivers, EqOperands)
LT == Binary("LT", OrderReceivers, Operands)
LE == Binary("LE", OrderReceivers, Operands)
GT == Binary("GT", OrderReceivers, Operands)
GE == Binary("GE", OrderReceivers, Operands)
Hash == Unary("Hash", HashReceivers)
Repr == Unary("Repr", Receivers)

\* A call of complexCoerce on any object.
Coerce ==
    /\ slot = "none"
    /\ \E o \in EqOperands :
          /\ w' = o
          /\ res' = complexCoerce(o)
    /\ v' = Nil
    /\ slot' = "complexCoerce"
    /\ UNCHANGED slots

Next ==
    \/ InitComplexType
    \/ Add
    \/ RAdd
    \/ Sub
    \/ RSub
    \/ Eq
    \/ NE
    \/ LT
    \/ LE
    \/ GT
    \/ GE
    \/ Hash
    \/ Repr
    \/ Coerce

Spec == Init /\ [][Next]_vars

(***************************************************************************)
(* Properties                                                              *)
(***************************************************************************)
ArithSlots == {"Add", "Sub", "RAdd", "RSub"}
OrderSlots == {"LT", "LE", "GT", "GE"}

\* How the float coercion of a non-complex operand ends.
CoercionOf(o) ==
    LET fc == floatCoerce(o)
    IN  IF isInstance(o, ComplexType) THEN "complex"
        ELSE IF fc.ok THEN (IF IsInf(fc.f) THEN "infinity" ELSE "finite")
        ELSE IF IsInf(fc.f) THEN "overflow"
        ELSE IF fc.f = PosZero THEN "not numeric"
        ELSE "other"

Overflows(o) == CoercionOf(o) = "overflow"

NotNumeric(o) == CoercionOf(o) = "not numeric"

LegitInfinity(o) == CoercionOf(o) = "infinity"

\* C1: an arithmetic handler whose right operand overflows the float coercion
\* (not complex, coercion fails with +-Inf) returns no object and raises
\* OverflowError: neither a saturated Complex nor NotImplemented; a right operand
\* that coerces to a legitimate infinity raises nothing and yields a Complex.
C1_OverflowSignaling ==
    slot \in ArithSlots =>
        /\ Overflows(w) =>
              /\ res.obj = Nil
              /\ res.exc = RaiseType(OverflowErrorType, "long int too large to convert to float")
        /\ LegitInfinity(w) =>
              /\ res.exc = Nil
              /\ res.obj.typ = ComplexType

C1_Witness ==
    /\ slot = "Sub"
    /\ w = NewLong(-1, TRUE)
    /\ res.obj = Nil
    /\ res.exc.typ = OverflowErrorType

\* C2: an arithmetic handler returns exactly NotImplemented, with no exception,
\* when the right operand is neither complex nor coercible to a float (coercion
\* gives 0 and fails), and returns NotImplemented in no other case.
C2_DeferralOnNonNumeric ==
    slot \in ArithSlots =>
        (IF NotNumeric(w) THEN res = Ret(NotImplemented, Nil) ELSE res.obj # NotImplemented)

C2_Witness ==
    /\ slot = "Add"
    /\ v = NewComplex(Cplx(FromInt(1), PosZero))
    /\ w = NewStr(<<"t", "e", "x", "t">>)
    /\ res = Ret(NotImplemented, Nil)

NumericTypes == {IntType, BoolType, LongType, FloatType, ComplexType}

\* C3: each of the slots LT, LE, GT, GE is bound to complexCompareNotSupported;
\* called with an int, long, float or complex operand it raises TypeError "no
\* ordering relation is defined for complex numbers" and returns no object, with
\* any other operand it returns NotImplemented and no exception; it never
\* returns a boolean.
C3_OrderingPolicy ==
    slot \in OrderSlots =>
        /\ slots[slot] = "complexCompareNotSupported"
        /\ IF w.typ \in NumericTypes
           THEN res = Ret(Nil, RaiseType(TypeErrorType,
                                         "no ordering relation is defined for complex numbers"))
           ELSE res = Ret(NotImplemented, Nil)
        /\ res.obj.typ # BoolType

C3_Witness ==
    /\ slot = "LT"
    /\ v = NewComplex(Cplx(FromInt(1), PosZero))
    /\ w = NewInt(IntToWord(-1))
    /\ res.obj = Nil
    /\ res.exc.typ = TypeErrorType

\* The integer a finite float64 holds.
IntVal(d) == d.s * d.n * Pow2(d.e)

FiniteC(c) == c.re.k = "fin" /\ c.im.k = "fin"

\* x is the complex value whose components are the integer differences of a and b.
IsDifference(x, a, b) ==
    /\ FiniteC(x)
    /\ IntVal(x.re) = IntVal(a.re) - IntVal(b.re)
    /\ IntVal(x.im) = IntVal(a.im) - IntVal(b.im)

CNeg(c) == Cplx(DNeg(c.re), DNeg(c.im))
CEq(a, b) == DEq(a.re, b.re) /\ DEq(a.im, b.im)

\* C4: for an operand that is complex or coerces to (x, 0.0), complexRSub(v, w)
\* is operand minus receiver and complexSub(v, w) is receiver minus operand,
\* component-wise; so for complex a, b with integer components complexSub(a, b)
\* equals the negation of complexSub(b, a), and complexRSub(a, b) is complexSub(b, a).
C4_SubtractionDirection ==
    slot \in {"RSub", "Sub"} =>
        LET co == complexCoerce(w)
            lhs == IF slot = "Sub" THEN v.value ELSE co.c
            rhs == IF slot = "Sub" THEN co.c ELSE v.value
            swapped == complexSub(w, v)
        IN  co.ok =>
              /\ res = Ret(NewComplex(CSub(lhs, rhs)), Nil)
              /\ FiniteC(lhs) /\ FiniteC(rhs) => IsDifference(res.obj.value, lhs, rhs)
              /\ slot = "RSub" /\ isInstance(w, ComplexType) => res = swapped
              /\ slot = "Sub" /\ isInstance(w, ComplexType) /\ FiniteC(lhs) /\ FiniteC(rhs) =>
                    CEq(res.obj.value, CNeg(swapped.obj.value))

C4_Witness ==
    /\ slot = "RSub"
    /\ v = NewComplex(Cplx(FromInt(1), PosZero))
    /\ w = NewComplex(Cplx(FromInt(-1), FromInt(1)))
    /\ res = Ret(NewComplex(Cplx(FromInt(-2), FromInt(1))), Nil)

\* The hash the host gives a float, an int (or bool) and a long: the hash of the
\* number, with the reserved value -1 replaced by -2.
NumberHash(h) == IF h = MinusOne THEN MinusTwo ELSE h

HashOf(o) ==
    IF isInstance(o, ComplexType) THEN complexHash(o).obj
    ELSE IF isInstance(o, FloatType) THEN NewInt(NumberHash(hashFloat(o.f)))
    ELSE IF isInstance(o, IntType) THEN NewInt(NumberHash(o.i))
    ELSE NewInt(NumberHash(IntToWord(o.l)))

\* C5: whenever complexEq(a, b) returns True for a complex, float or integer b,
\* complexHash(a) equals the hash of b; a complex with imaginary part 0 hashes as
\* the float and the integer holding its real part.
C5_HashEqualityConsistency ==
    slot = "Eq" /\ res.obj = True => complexHash(v).obj = HashOf(w)

HasNaN(c) == c.re.k = "nan" \/ c.im.k = "nan"

\* complexEq is symmetric on complex values.
EqSymmetric ==
    slot = "Eq" /\ isInstance(w, ComplexType) =>
        (res.obj = True <=> complexEq(w, v).obj = True)

\* C6 as stated: complexEq(a, a) is True for every complex a, NaN components
\* included, and complexEq(a, b) is True iff complexEq(b, a) is.
C6_Original ==
    /\ slot = "Eq" /\ w = v => res.obj = True
    /\ EqSymmetric

\* C6, amended: complexEq(a, a) is True for every complex a that has no NaN
\* component (with one it is False), and complexEq(a, b) is True iff
\* complexEq(b, a) is, for all complex a and b.
C6_EqReflexiveSymmetric ==
    /\ slot = "Eq" /\ w = v => (res.obj = True <=> ~HasNaN(v.value))
    /\ slot = "Eq" /\ w = v => res = Ret(GetBool(~HasNaN(v.value)), Nil)
    /\ EqSymmetric

C6_Witness ==
    /\ slot = "Eq"
    /\ v = NewComplex(Cplx(Inf(-1), NegZero))
    /\ w = v
    /\ res = Ret(True, Nil)

\* The text of a float64 without its sign.
Unsigned(d) ==
    IF d.k = "nan" THEN <<"N", "a", "N">>
    ELSE IF d.k = "inf" THEN <<"I", "n", "f">>
    ELSE Decimal(d.n * Pow2(d.e))

\* C7: complexRepr(c) is "<imag>j" without parentheses when the real part is
\* zero; otherwise it is "(<real>+<imag>j)" when the imaginary part is zero or
\* positive and "(<real>-<imag>j)" when it is negative: exactly one sign
\* character between the real and the imaginary text, inside parentheses.
C7_ReprShape ==
    slot = "Repr" =>
        LET c == v.value
        IN  /\ res.exc = Nil
            /\ res.obj.typ = StrType
            /\ IF DEq(c.re, PosZero)
               THEN res.obj.s = FormatFloat(c.im) \o <<"j">>
               ELSE res.obj.s = <<"(">> \o FormatFloat(c.re)
                                \o <<IF DGeZero(c.im) THEN "+" ELSE "-">>
                                \o Unsigned(c.im) \o <<"j", ")">>

\* The boolean an equality handler owes for a coerced operand: exact comparison
\* of both components.
SameComponents(a, c) == DEq(a.value.re, c.re) /\ DEq(a.value.im, c.im)

\* C8 as stated: complexEq and complexNE never raise, return NotImplemented for a
\* non-numeric operand, and return a boolean for every numeric operand, a long
\* too large for a float64 included.
C8_Original ==
    slot \in {"Eq", "NE"} =>
        /\ res.exc = Nil
        /\ NotNumeric(w) => res.obj = NotImplemented
        /\ w.typ \in NumericTypes =>
              res.obj = GetBool(SameComponents(v, complexCoerce(w).c) <=> slot = "Eq")

\* C8, amended: complexEq and complexNE never raise; they return NotImplemented
\* when the coercion of the operand fails, which is for a non-numeric operand and
\* for a long too large for a float64, and for every other numeric operand the
\* boolean of the exact comparison of both components with the coerced value;
\* complexNE is the negation of complexEq and defers in exactly the same cases.
C8_EqualityNeverRaises ==
    slot \in {"Eq", "NE"} =>
        LET eq == complexEq(v, w).obj
        IN  /\ res.exc = Nil
            /\ IF CoercionOf(w) \in {"not numeric", "overflow"}
               THEN res.obj = NotImplemented
               ELSE /\ w.typ \in NumericTypes
                    /\ res.obj = GetBool(SameComponents(v, complexCoerce(w).c) <=> slot = "Eq")
            /\ slot = "NE" =>
                  /\ res.obj = NotImplemented <=> eq = NotImplemented
                  /\ res.obj # NotImplemented => res.obj = GetBool(eq = False)

C8_Witness ==
    /\ slot = "NE"
    /\ v = NewComplex(Cplx(Inf(1), PosZero))
    /\ w = NewLong(1, TRUE)
    /\ res = Ret(NotImplemented, Nil)

\* C9: complexCoerce(o) is (o's value, true) for a complex o; otherwise, with
\* (x, ok) the float coercion of o, ((x, 0), true) when ok, infinite x included,
\* ((x, 0), false) when not ok and x is infinite, and (0, false) when not ok and
\* x is not infinite.  The flag is false with an infinite real part exactly for
\* an overflowing long, never for a floating infinity.
C9_CoerceOutcomes ==
    slot = "complexCoerce" =>
        /\ LET fc == floatCoerce(w)
           IN  res = (IF w.typ = ComplexType THEN [c |-> w.value, ok |-> TRUE]
                      ELSE IF fc.ok THEN [c |-> Cplx(fc.f, PosZero), ok |-> TRUE]
                      ELSE IF IsInf(fc.f) THEN [c |-> Cplx(fc.f, PosZero), ok |-> FALSE]
                      ELSE [c |-> Cplx(PosZero, PosZero), ok |-> FALSE])
        /\ (~res.ok /\ IsInf(res.c.re)) <=> (w.typ = LongType /\ w.huge)
        /\ w.typ = FloatType /\ IsInf(w.f) => res = [c |-> Cplx(w.f, PosZero), ok |-> TRUE]
        /\ w.typ \in {StrType, NoneType} => res = [c |-> Cplx(PosZero, PosZero), ok |-> FALSE]

C9_Witness ==
    /\ slot = "complexCoerce"
    /\ w = NewLong(1, TRUE)
    /\ res = [c |-> Cplx(Inf(1), PosZero), ok |-> FALSE]

SmallInts(c) == FiniteC(c) /\ c.re.e = 0 /\ c.im.e = 0 /\ c.re.n <= 1000 /\ c.im.n <= 1000

\* C10: complexHash(v) is hashFloat(re) + 1000003 * hashFloat(im) in int
\* arithmetic (wrapping), with -1 replaced by -2: it returns an int and no
\* exception and never -1, also when the sum reaches -1 only by wrapping.
C10_HashCombination ==
    slot = "Hash" =>
        /\ res.exc = Nil
        /\ res.obj.typ = IntType
        /\ res.obj.i # MinusOne
        /\ LET sum == WAdd(hashFloat(v.value.re), WMul(K, hashFloat(v.value.im)))
           IN  res.obj.i = (IF sum = MinusOne THEN MinusTwo ELSE sum)
        /\ SmallInts(v.value) =>
              LET x == IntVal(v.value.re) + 1000003 * IntVal(v.value.im)
              IN  WordToInt(res.obj.i) = (IF x = -1 THEN -2 ELSE x)

C10_Witness ==
    /\ slot = "Hash"
    /\ v = NewComplex(Cplx(WrapRe, WrapIm))
    /\ WordToInt(hashFloat(WrapRe)) = 1167458303
    /\ hashFloat(WrapIm) = <<0, 0, 78, 174, 112, 117, 0, 0>>
    /\ res = Ret(NewInt(MinusTwo), Nil)

====
